---- MODULE Spec2Model ----
(***************************************************************************)
(* A model of the horizontal time axis of the timeline                     *)
(* (src/src/timeline/component/TimeAxis.js): the range and option setters, *)
(* the repaint with its pool of reusable label and gridline elements, and  *)
(* the axis line.  A repaint is a sequence of steps (start, move the pool  *)
(* to the redundant lists, one step per tick, the label on the left, the   *)
(* cleanup, the axis line); no other operation runs while a repaint is     *)
(* under way, as the component is single-threaded.                         *)
(*                                                                         *)
(* Pixel positions are exact rationals [n, d] (n/d, d > 0); instants are   *)
(* whole numbers (milliseconds).  The host's measurements (the width of    *)
(* the frame, the height of the panel, the glyph boxes) are inputs drawn   *)
(* from small sets; widths are the positive widths of an attached frame.   *)
(***************************************************************************)
EXTENDS Integers, Sequences, FiniteSets, TLC

VARIABLES
  parentKind,        \* this.parent: "ok", "none" (no parent), "nocontainer"
  host,              \* what the host surface reports: frame.offsetWidth, parent.height
  range,             \* this.range
  options,           \* the effective options (this.options over this.defaultOptions)
  frameExists,       \* this.frame has been created
  frameStyle,        \* this.frame.style
  container,         \* the children of the parent's container, in order
  frameChildren,     \* the children of the frame: which elements they are, and
                     \* which of them follow the axis line in document order
  elems,             \* the elements that exist: id -> className, text, style
  dom,               \* this.dom: the four active lists, the redundant lists, the line
  props,             \* this.props
  width,             \* this.width
  height,            \* this.height
  conversion,        \* this.conversion
  step,              \* this.step, the TimeStep of the last repaint
  pc,                \* where the repaint under way stands; "idle" between calls
  xFirstMajorLabel,  \* local of _repaintLabels
  max,               \* local of _repaintLabels
  beforeChild,       \* local of repaint
  raised,            \* what the last call of setRange or repaint raised, or "none"
  cycle,             \* per kind: the elements placed in the last pool cycle and,
                     \* until the repaint completes, those it created and
                     \* destroyed and those placed in the cycle before
  pre,               \* the visual state when the repaint began that is under
                     \* way or that raised
  last               \* the inputs and the result of the preceding repaint call,
                     \* when it completed

vars == <<parentKind, host, range, options, frameExists, frameStyle, container,
          frameChildren, elems, dom, props, width, height, conversion, step, pc,
          xFirstMajorLabel, max, beforeChild, raised, cycle, pre, last>>

-----------------------------------------------------------------------------
(* Bounds of the model and constants of the program *)

\* the starts of the plain-object ranges are drawn from 0..MaxStart
MaxStart == 1

\* the cap on the ticks of one repaint (while ... && max < 1000)
MaxTicks == 1000

\* the lengths (end - start) of the ranges the model sets
Spans == {2, 5}

\* frame.offsetWidth and parent.height as the host reports them; the width is
\* positive: a layout that reports 0 for a frame is not among them
Hosts == {[width |-> 100, height |-> 50], [width |-> 30, height |-> 80]}

\* the boxes of the two measuring probes (clientHeight, clientWidth); a
\* hidden or headless surface measures 0
Glyphs == {[minorCharHeight |-> 0, minorCharWidth |-> 0,
            majorCharHeight |-> 0, majorCharWidth |-> 0],
           [minorCharHeight |-> 12, minorCharWidth |-> 4,
            majorCharHeight |-> 16, majorCharWidth |-> 4]}

Kinds == {"majorLines", "majorTexts", "minorLines", "minorTexts"}

Orientations == {"top", "bottom"}

-----------------------------------------------------------------------------
(* Values *)

\* a style length 'Npx', or '' when not set
Px(n) == [set |-> TRUE, v |-> n]
NoPx == [set |-> FALSE, v |-> 0]

\* a pixel position n/d; d = 0 stands for a style.left that is not set
Rat(n, d) == [n |-> n, d |-> d]
NoLeft == [n |-> 0, d |-> 0]

\* x - w/2
RatMinusHalf(x, w) == [n |-> 2 * x.n - w * x.d, d |-> 2 * x.d]

\* a / b rounded towards zero (b > 0), as new Date(number) rounds
TruncDiv(a, b) == IF a >= 0 THEN a \div b ELSE 0 - ((0 - a) \div b)

RECURSIVE Digits(_)
\* the decimal text of a number
Digits(n) == IF n < 10 THEN <<n>> ELSE Append(Digits(n \div 10), n % 10)

\* the arguments of setRange: null, a plain object or a Range instance, with
\* or without start and end
RangeValue(kind, hasStart, start, hasEnd, end) ==
  [kind |-> kind, hasStart |-> hasStart, start |-> start,
   hasEnd |-> hasEnd, end |-> end]

NoRange == RangeValue("null", FALSE, 0, FALSE, 0)

EmptyRangeInstance == RangeValue("Range", FALSE, 0, FALSE, 0)

RangeArgs ==
  {NoRange, EmptyRangeInstance,
   RangeValue("Object", TRUE, 1, FALSE, 0),
   RangeValue("Object", FALSE, 0, TRUE, 3)}
  \cup {RangeValue("Object", TRUE, s, TRUE, s + sp) : s \in 0..MaxStart, sp \in Spans}
  \cup {RangeValue("Range", TRUE, 0, TRUE, 5)}

\* !v of a number property: missing (undefined) or 0
Falsy(has, v) == ~has \/ v = 0

OptionValues ==
  [orientation : Orientations, showMinorLabels : BOOLEAN, showMajorLabels : BOOLEAN]

DefaultOptions ==
  [orientation |-> "bottom", showMinorLabels |-> TRUE, showMajorLabels |-> TRUE]

EmptyLists ==
  [majorLines |-> <<>>, majorTexts |-> <<>>, minorLines |-> <<>>, minorTexts |-> <<>>]

ZeroCounts ==
  [majorLines |-> 0, majorTexts |-> 0, minorLines |-> 0, minorTexts |-> 0]

NoConversion == [set |-> FALSE, offset |-> 0, num |-> 0, den |-> 1]

NoStep == [set |-> FALSE, start |-> 0, end |-> 0, minimumStep |-> 0,
           step |-> 0, current |-> 0]

-----------------------------------------------------------------------------
(* The coordinate conversion *)

\* Range.conversion(start, end, width): scale = width / (end - start), offset = start
RangeConversion(start, end, w) ==
  [set |-> TRUE, offset |-> start, num |-> w, den |-> end - start]

\* TimeAxis.prototype.toScreen
ToScreen(conv, time) == Rat((time - conv.offset) * conv.num, conv.den)

\* a toTime that rounded up to the next whole instant
ToTime_RoundUp(conv, x) ==
  TruncDiv(x * conv.den + conv.offset * conv.num + conv.num - 1, conv.num)

\* TimeAxis.prototype.toTime, for a whole pixel x
ToTime(conv, x) == TruncDiv(x * conv.den + conv.offset * conv.num, conv.num)

\* _updateConversion, with a range set
UpdateConversion(r, w) ==
  IF r.kind = "Range"
    THEN RangeConversion(r.start, r.end, w)   \* range.conversion(width)
    ELSE RangeConversion(r.start, r.end, w)   \* Range.conversion(start, end, width)

-----------------------------------------------------------------------------
(* The tick-step generator *)

\* the step the generator picks for a minimum step: 1, 2 or 4
StepFor(minimumStep) ==
  IF minimumStep <= 1 THEN 1 ELSE IF minimumStep <= 2 THEN 2 ELSE 4

TimeStep(start, end, minimumStep) ==
  [set |-> TRUE, start |-> start, end |-> end, minimumStep |-> minimumStep,
   step |-> StepFor(minimumStep), current |-> start]

\* step.first(): the last multiple of the step at or before the start
StepFirst(s) == [s EXCEPT !.current = s.start - (s.start % s.step)]

StepHasNext(s) == s.current <= s.end

StepNext(s) == [s EXCEPT !.current = s.current + s.step]

StepIsMajor(s) == s.current % 4 = 0

StepLabelMinor(s) == Digits(s.current)

\* step.getLabelMajor(date)
StepLabelMajor(time) == Digits(time \div 4)

-----------------------------------------------------------------------------
(* The elements and the pool *)

NewElement(className, text) ==
  [className |-> className, text |-> text, top |-> NoPx, bottom |-> NoPx,
   left |-> NoLeft, height |-> NoPx]

\* no element (undefined); an element is named by its class and a number
NoElement == <<"none", 0>>

\* document.createElement: an element that is none of the existing ones,
\* named with the first number from a given one on that is free for its class
FreshId(es, className, from) ==
  <<className,
    CHOOSE n \in from..(Cardinality(DOMAIN es) + 1) :
      /\ <<className, n>> \notin DOMAIN es
      /\ \A m \in from..(n - 1) : <<className, m>> \in DOMAIN es>>

\* the ids of a sequence
Ids(seq) == {seq[i] : i \in 1..Len(seq)}

Without(seq, dead) == SelectSeq(seq, LAMBDA e : e \notin dead)

NoChildren == [all |-> {}, afterLine |-> {}]

\* frame.appendChild(id): the new last child; line is the axis line
AppendChild(ch, id, line) ==
  [all |-> ch.all \cup {id},
   afterLine |-> IF id = line THEN {}
                 ELSE IF line \in ch.all THEN ch.afterLine \cup {id}
                 ELSE ch.afterLine]

\* frame.removeChild, of each of a set of children
RemoveChildren(ch, gone) ==
  [all |-> ch.all \ gone, afterLine |-> ch.afterLine \ gone]

ActiveLists(d) ==
  [majorLines |-> d.majorLines, majorTexts |-> d.majorTexts,
   minorLines |-> d.minorLines, minorTexts |-> d.minorTexts]

\* the state the pool operations work on
PoolState ==
  [dom |-> dom, elems |-> elems, children |-> frameChildren, cycle |-> cycle,
   got |-> NoElement]

Acquire_AlwaysCreate(st, kind, className, text) ==
  LET id == FreshId(st.elems, className, Len(st.dom[kind]) + 1)
  IN [dom |-> [st.dom EXCEPT ![kind] = Append(@, id)],
      elems |-> (id :> NewElement(className, text)) @@ st.elems,
      children |-> AppendChild(st.children, id, st.dom.line),
      cycle |-> [st.cycle EXCEPT !.placed[kind] = @ + 1, !.created[kind] = @ + 1],
      got |-> id]

Acquire_Pop(st, kind, className, text) ==
  LET red == st.dom.redundant[kind]
  IN IF red # <<>>
       THEN [st EXCEPT !.dom.redundant[kind] = SubSeq(red, 1, Len(red) - 1),
                       !.dom[kind] = Append(@, red[Len(red)]),
                       !.cycle.placed[kind] = @ + 1,
                       !.got = red[Len(red)]]
       ELSE Acquire_AlwaysCreate(st, kind, className, text)

\* "reuse redundant label / create new label", then push on the active list
Acquire(st, kind, className, text) ==
  LET red == st.dom.redundant[kind]   \* shift() takes the first
  IN IF red # <<>>
       THEN [st EXCEPT !.dom.redundant[kind] = Tail(red),
                       !.dom[kind] = Append(@, Head(red)),
                       !.cycle.placed[kind] = @ + 1,
                       !.got = Head(red)]
       ELSE LET id == FreshId(st.elems, className, Len(st.dom[kind]) + 1)
            IN [dom |-> [st.dom EXCEPT ![kind] = Append(@, id)],
                elems |-> (id :> NewElement(className, text)) @@ st.elems,
                children |-> AppendChild(st.children, id, st.dom.line),
                cycle |-> [st.cycle EXCEPT !.placed[kind] = @ + 1,
                                           !.created[kind] = @ + 1],
                got |-> id]

RepaintMinorText(st, x, text, orientation) ==
  LET a == Acquire(st, "minorTexts", "text minor", <<>>)
  IN [a EXCEPT !.elems[a.got] =
        [@ EXCEPT !.text = text,
                  !.top = IF orientation = "top" THEN Px(props.minorLabelHeight) ELSE NoPx,
                  !.bottom = IF orientation = "top" THEN NoPx ELSE Px(props.minorLabelHeight),
                  !.left = x]]

RepaintMajorText(st, x, text, orientation) ==
  LET a == Acquire(st, "majorTexts", "text major", text)
  IN [a EXCEPT !.elems[a.got] =
        [@ EXCEPT !.text = text,
                  !.top = IF orientation = "top" THEN Px(0) ELSE NoPx,
                  !.bottom = IF orientation = "top" THEN NoPx ELSE Px(0),
                  !.left = x]]

RepaintMinorLine(st, x, orientation) ==
  LET a == Acquire(st, "minorLines", "grid vertical minor", <<>>)
  IN [a EXCEPT !.elems[a.got] =
        [@ EXCEPT !.top = IF orientation = "top" THEN Px(props.minorLabelHeight) ELSE NoPx,
                  !.bottom = IF orientation = "top" THEN NoPx ELSE Px(props.minorLabelHeight),
                  !.height = Px(props.minorLineHeight),
                  !.left = RatMinusHalf(x, props.minorLineWidth)]]

RepaintMajorLine(st, x, orientation) ==
  LET a == Acquire(st, "majorLines", "grid vertical major", <<>>)
  IN [a EXCEPT !.elems[a.got] =
        [@ EXCEPT !.top = IF orientation = "top" THEN Px(0) ELSE NoPx,
                  !.bottom = IF orientation = "top" THEN NoPx ELSE Px(0),
                  !.left = RatMinusHalf(x, props.majorLineWidth),
                  !.height = Px(props.majorLineHeight)]]

\* "Cleanup leftover DOM elements from the redundant list", emptying the lists
\* without detaching the elements
CleanupPool_KeepAttached(st) ==
  [st EXCEPT !.dom.redundant = EmptyLists]

\* "Cleanup leftover DOM elements from the redundant list": every list is
\* emptied and each of its elements that has a parent is removed from it
CleanupPool(st) ==
  LET dead == UNION {Ids(st.dom.redundant[k]) : k \in Kinds}
      attached == dead \cap st.children.all
  IN [st EXCEPT
        !.dom.redundant = EmptyLists,
        !.children = RemoveChildren(st.children, attached),
        !.elems = [id \in (DOMAIN st.elems) \ dead |-> st.elems[id]],
        !.cycle.destroyed =
          [majorLines |-> Cardinality(Ids(st.dom.redundant.majorLines) \cap attached),
           majorTexts |-> Cardinality(Ids(st.dom.redundant.majorTexts) \cap attached),
           minorLines |-> Cardinality(Ids(st.dom.redundant.minorLines) \cap attached),
           minorTexts |-> Cardinality(Ids(st.dom.redundant.minorTexts) \cap attached)]]

\* "Move all DOM elements to a redundant list", leaving the active lists as they are
BeginCycleDom_KeepActive(d) ==
  [d EXCEPT !.redundant = ActiveLists(d)]

\* "Move all DOM elements to a redundant list ... and clear the lists"
BeginCycleDom(d) ==
  [d EXCEPT !.redundant = ActiveLists(d),
            !.majorLines = <<>>, !.majorTexts = <<>>,
            !.minorLines = <<>>, !.minorTexts = <<>>]

-----------------------------------------------------------------------------
(* The tick loop of _repaintLabels *)

\* a loop without the cap
LoopContinues_NoCap(s, n) == StepHasNext(s)

LoopContinues_OffByOne(s, n) == StepHasNext(s) /\ n <= MaxTicks

\* while (step.hasNext() && max < 1000)
LoopContinues(s, n) == StepHasNext(s) /\ n < MaxTicks

RatPositive(x) == x.n > 0

\* w < x for a whole number w and a position x
LessThanRat(w, x) == w * x.d < x.n

PlaceTick_MajorLineForMajorTick(st, x, isMajor, minorText, majorText, opts) ==
  LET s1 == IF opts.showMinorLabels
              THEN RepaintMinorText(st, x, minorText, opts.orientation)
              ELSE st
  IN IF isMajor
       THEN RepaintMajorLine(
              IF opts.showMajorLabels /\ RatPositive(x)
                THEN RepaintMajorText(s1, x, majorText, opts.orientation)
                ELSE s1,
              x, opts.orientation)
       ELSE RepaintMinorLine(s1, x, opts.orientation)

\* a body of the loop that gave a major tick a minor gridline as well
PlaceTick_BothLines(st, x, isMajor, minorText, majorText, opts) ==
  LET s1 == IF opts.showMinorLabels
              THEN RepaintMinorText(st, x, minorText, opts.orientation)
              ELSE st
      s2 == RepaintMinorLine(s1, x, opts.orientation)
  IN IF isMajor /\ opts.showMajorLabels
       THEN RepaintMajorLine(
              IF RatPositive(x)
                THEN RepaintMajorText(s2, x, majorText, opts.orientation)
                ELSE s2,
              x, opts.orientation)
       ELSE s2

\* the body of the loop for one tick: its labels and its gridline
PlaceTick(st, x, isMajor, minorText, majorText, opts) ==
  LET s1 == IF opts.showMinorLabels
              THEN RepaintMinorText(st, x, minorText, opts.orientation)
              ELSE st
  IN IF isMajor /\ opts.showMajorLabels
       THEN RepaintMajorLine(
              IF RatPositive(x)
                THEN RepaintMajorText(s1, x, majorText, opts.orientation)
                ELSE s1,
              x, opts.orientation)
       ELSE RepaintMinorLine(s1, x, opts.orientation)

WidthText_NoDefault(text, majorCharWidth) == Len(text) * majorCharWidth + 10

\* leftText.length * (this.props.majorCharWidth || 10) + 10
WidthText(text, majorCharWidth) ==
  Len(text) * (IF majorCharWidth = 0 THEN 10 ELSE majorCharWidth) + 10

\* xFirstMajorLabel == undefined || widthText < xFirstMajorLabel
LeftLabelFits(widthText, xFirst) ==
  ~xFirst.def \/ LessThanRat(widthText, xFirst.x)

\* "create a major label on the left when needed"
PlaceLeftLabel(st, conv, xFirst, opts) ==
  IF opts.showMajorLabels
    THEN LET leftTime == ToTime(conv, 0)
             leftText == StepLabelMajor(leftTime)
             widthText == WidthText(leftText, props.majorCharWidth)
         IN IF LeftLabelFits(widthText, xFirst)
              THEN RepaintMajorText(st, Rat(0, 1), leftText, opts.orientation)
              ELSE st
    ELSE st

-----------------------------------------------------------------------------
(* The frame in its parent *)

IndexOf(seq, x) == CHOOSE i \in 1..Len(seq) : seq[i] = x

\* frame.nextSibling
NextSibling(seq, x) ==
  IF IndexOf(seq, x) < Len(seq) THEN seq[IndexOf(seq, x) + 1] ELSE "none"

InsertBefore(seq, x, before) ==
  LET i == IndexOf(seq, before)
  IN SubSeq(seq, 1, i - 1) \o <<x>> \o SubSeq(seq, i, Len(seq))

\* "put frame online again"
Reattach(seq, before) ==
  IF before # "none" THEN InsertBefore(seq, "frame", before) ELSE Append(seq, "frame")

FrameAttached == "frame" \in Ids(container)

\* a _calculateCharSize that measured in every repaint
CalculateCharSize_EveryRepaint(p, g) ==
  [p EXCEPT !.measured = TRUE,
            !.minorCharHeight = g.minorCharHeight,
            !.minorCharWidth = g.minorCharWidth,
            !.majorCharHeight = g.majorCharHeight,
            !.majorCharWidth = g.majorCharWidth]

\* _calculateCharSize: the glyph boxes are measured when they are not in props
CalculateCharSize(p, g) ==
  IF p.measured
    THEN p
    ELSE [p EXCEPT !.measured = TRUE,
                   !.minorCharHeight = g.minorCharHeight,
                   !.minorCharWidth = g.minorCharWidth,
                   !.majorCharHeight = g.majorCharHeight,
                   !.majorCharWidth = g.majorCharWidth]

\* "determine the width and height of the elements for the axis"
UpdateSizes(p, parentHeight, opts) ==
  LET minorLabelHeight == IF opts.showMinorLabels THEN p.minorCharHeight ELSE 0
      majorLabelHeight == IF opts.showMajorLabels THEN p.majorCharHeight ELSE 0
  IN [p EXCEPT !.minorLabelHeight = minorLabelHeight,
               !.majorLabelHeight = majorLabelHeight,
               !.minorLineHeight = parentHeight + minorLabelHeight,
               !.minorLineWidth = 1,
               !.majorLineHeight = parentHeight + minorLabelHeight + majorLabelHeight,
               !.majorLineWidth = 1]

AxisHeight(p) == p.minorLabelHeight + p.majorLabelHeight

FrameStyleFor(opts, h) ==
  IF opts.orientation = "top"
    THEN [top |-> Px(0), left |-> Px(0), bottom |-> NoPx, height |-> Px(h)]
    ELSE [top |-> NoPx, bottom |-> Px(0), left |-> Px(0), height |-> Px(h)]

\* minimumStep = toTime((minorCharWidth || 10) * 5) - toTime(0)
MinimumStep(conv, minorCharWidth) ==
  ToTime(conv, (IF minorCharWidth = 0 THEN 10 ELSE minorCharWidth) * 5)
    - ToTime(conv, 0)

\* an element has no property "line": line.line is undefined
LineOfLine(e) == NoElement

-----------------------------------------------------------------------------
(* The visual state, and the inputs of a repaint *)

Visual ==
  [valid |-> TRUE, container |-> container, lists |-> ActiveLists(dom), line |-> dom.line,
   elems |-> elems, children |-> frameChildren]

NoVisual ==
  [valid |-> FALSE, container |-> <<>>, lists |-> EmptyLists, line |-> NoElement, elems |-> <<>>,
   children |-> NoChildren]

NoLast ==
  [valid |-> FALSE, range |-> NoRange, width |-> 0, parentHeight |-> 0,
   options |-> DefaultOptions, lists |-> EmptyLists, elems |-> <<>>,
   children |-> NoChildren]

-----------------------------------------------------------------------------
(* The initial state: the component as its constructor leaves it *)

Init ==
  /\ parentKind \in {"ok", "none", "nocontainer"}
  /\ host \in Hosts
  /\ range = NoRange
  /\ options \in {[DefaultOptions EXCEPT !.orientation = o] : o \in Orientations}
  /\ frameExists = FALSE
  /\ frameStyle = [top |-> NoPx, bottom |-> NoPx, left |-> NoPx, height |-> NoPx]
  /\ container = <<>>
  /\ frameChildren = NoChildren
  /\ elems = <<>>
  /\ dom = [majorLines |-> <<>>, majorTexts |-> <<>>, minorLines |-> <<>>,
            minorTexts |-> <<>>, redundant |-> EmptyLists, line |-> NoElement]
  /\ props = [measured |-> FALSE,
              minorCharHeight |-> 0, minorCharWidth |-> 0,
              majorCharHeight |-> 0, majorCharWidth |-> 0,
              minorLabelHeight |-> 0, majorLabelHeight |-> 0,
              minorLineHeight |-> 0, minorLineWidth |-> 0,
              majorLineHeight |-> 0, majorLineWidth |-> 0]
  /\ width = 0
  /\ height = 0
  /\ conversion = NoConversion
  /\ step = NoStep
  /\ pc = "idle"
  /\ xFirstMajorLabel = [def |-> FALSE, x |-> NoLeft]
  /\ max = 0
  /\ beforeChild = "none"
  /\ raised = "none"
  /\ cycle = [placed |-> ZeroCounts, created |-> ZeroCounts,
              destroyed |-> ZeroCounts, prev |-> ZeroCounts]
  /\ pre = NoVisual
  /\ last = NoLast

-----------------------------------------------------------------------------
(* The setters, and the host *)

SetRangeRejects_NoInstanceTest(arg) ==
  arg.kind = "null" \/ Falsy(arg.hasStart, arg.start) \/ Falsy(arg.hasEnd, arg.end)

\* !(range instanceof Range) && (!range || !range.start || !range.end)
SetRangeRejects(arg) ==
  /\ arg.kind # "Range"
  /\ \/ arg.kind = "null"
     \/ Falsy(arg.hasStart, arg.start)
     \/ Falsy(arg.hasEnd, arg.end)

\* a setRange that derived the conversion from the new range at once
SetRange_UpdatesConversion(arg) ==
  /\ pc = "idle"
  /\ IF SetRangeRejects(arg)
       THEN /\ raised' = "TypeError"
            /\ UNCHANGED <<range, conversion>>
       ELSE /\ range' = arg
            /\ raised' = "none"
            /\ conversion' = IF conversion.set /\ arg.hasStart /\ arg.hasEnd
                               THEN UpdateConversion(arg, width)
                               ELSE conversion
  /\ UNCHANGED <<parentKind, host, options, frameExists, frameStyle, container,
                 frameChildren, elems, dom, props, width, height,
                 step, pc, xFirstMajorLabel, max, beforeChild, cycle, pre, last>>

SetRange(arg) ==
  /\ pc = "idle"
  /\ IF SetRangeRejects(arg)
       THEN /\ raised' = "TypeError"
            /\ UNCHANGED range
       ELSE /\ range' = arg
            /\ raised' = "none"
  /\ UNCHANGED <<parentKind, host, options, frameExists, frameStyle, container,
                 frameChildren, elems, dom, props, width, height, conversion,
                 step, pc, xFirstMajorLabel, max, beforeChild, cycle, pre, last>>

\* Component.prototype.setOptions: the options given replace the current
\* ones; the model sets the two flags and leaves the orientation as the
\* constructor got it
SetOptions(o) ==
  /\ pc = "idle"
  /\ o # options
  /\ o.orientation = options.orientation
  /\ options' = o
  /\ UNCHANGED <<parentKind, host, range, frameExists, frameStyle, container,
                 frameChildren, elems, dom, props, width, height, conversion,
                 step, pc, xFirstMajorLabel, max, beforeChild, raised, cycle,
                 pre, last>>

\* the host lays the frame and the panel out anew
HostResize(h) ==
  /\ pc = "idle"
  /\ h # host
  /\ host' = h
  /\ UNCHANGED <<parentKind, range, options, frameExists, frameStyle, container,
                 frameChildren, elems, dom, props, width, height, conversion,
                 step, pc, xFirstMajorLabel, max, beforeChild, raised, cycle, pre, last>>

-----------------------------------------------------------------------------
(* repaint *)

\* the repaint of a range whose start and end are set; what Range and
\* TimeStep make of a Range instance without them is not modelled
RangeUsable(r) == r.hasStart /\ r.hasEnd

\* repaint with a detached frame and no parent, or a parent without a
\* container: it raises before the frame is attached
RepaintNoParent ==
  /\ pc = "idle"
  /\ ~FrameAttached
  /\ parentKind # "ok"
  /\ frameExists' = TRUE
  /\ width' = host.width
  /\ raised' = "Error"
  /\ pre' = Visual
  /\ last' = NoLast
  /\ UNCHANGED <<parentKind, host, range, options, frameStyle, container,
                 frameChildren, elems, dom, props, height, conversion, step, pc,
                 xFirstMajorLabel, max, beforeChild, cycle>>

\* repaint up to the call of _repaintLabels: the frame is created and
\* attached when it is not, the glyphs are measured once, the sizes are
\* derived, the frame is taken offline and styled
RepaintPrefix(g) ==
  LET attachedTo == IF FrameAttached THEN container ELSE Append(container, "frame")
      sized == UpdateSizes(CalculateCharSize(props, g), host.height, options)
  IN /\ frameExists' = TRUE
     /\ width' = host.width
     /\ props' = sized
     /\ height' = AxisHeight(sized)
     /\ beforeChild' = NextSibling(attachedTo, "frame")
     /\ container' = Without(attachedTo, {"frame"})
     /\ frameStyle' = FrameStyleFor(options, AxisHeight(sized))
     /\ pre' = Visual

\* a repaint without a range that raised only after the conversion was stored
RepaintNoRange_AfterConversion ==
  /\ pc = "idle"
  /\ FrameAttached \/ parentKind = "ok"
  /\ range.kind = "null"
  /\ \E g \in Glyphs : RepaintPrefix(g)
  /\ conversion' = RangeConversion(0, 1, host.width)
  /\ raised' = "Error"
  /\ last' = NoLast
  /\ UNCHANGED <<parentKind, host, range, options, frameChildren, elems, dom,
                 step, pc, xFirstMajorLabel, max, cycle>>

\* repaint without a range: _updateConversion raises 'No range configured'
RepaintNoRange ==
  /\ pc = "idle"
  /\ FrameAttached \/ parentKind = "ok"
  /\ range.kind = "null"
  /\ \E g \in Glyphs : RepaintPrefix(g)
  /\ raised' = "Error"
  /\ last' = NoLast
  /\ UNCHANGED <<parentKind, host, range, options, frameChildren, elems, dom,
                 conversion, step, pc, xFirstMajorLabel, max, cycle>>

\* repaint with a range, up to the new TimeStep of _repaintLabels
RepaintStart ==
  /\ pc = "idle"
  /\ FrameAttached \/ parentKind = "ok"
  /\ range.kind # "null"
  /\ RangeUsable(range)
  /\ \E g \in Glyphs : RepaintPrefix(g)
  /\ conversion' = UpdateConversion(range, host.width)
  /\ step' = TimeStep(range.start, range.end,
                      MinimumStep(conversion', props'.minorCharWidth))
  /\ pc' = "begin"
  /\ raised' = "none"
  /\ UNCHANGED <<parentKind, host, range, options, frameChildren, elems, dom,
                 xFirstMajorLabel, max, cycle, last>>

\* the elements move to the redundant lists; step.first()
BeginCycle ==
  /\ pc = "begin"
  /\ dom' = BeginCycleDom(dom)
  /\ step' = StepFirst(step)
  /\ xFirstMajorLabel' = [def |-> FALSE, x |-> NoLeft]
  /\ max' = 0
  /\ cycle' = [placed |-> ZeroCounts, created |-> ZeroCounts,
               destroyed |-> ZeroCounts, prev |-> cycle.placed]
  /\ pc' = "loop"
  /\ UNCHANGED <<parentKind, host, range, options, frameExists, frameStyle,
                 container, frameChildren, elems, props, width, height,
                 conversion, beforeChild, raised, pre, last>>

\* the pool and the locals of the loop
LoopState ==
  [pool |-> PoolState, step |-> step, max |-> max, xFirst |-> xFirstMajorLabel]

\* one pass of the loop
LoopPass(ls) ==
  LET x == ToScreen(conversion, ls.step.current)
      isMajor == StepIsMajor(ls.step)
  IN [pool |-> PlaceTick(ls.pool, x, isMajor, StepLabelMinor(ls.step),
                         StepLabelMajor(ls.step.current), options),
      step |-> StepNext(ls.step),
      max |-> ls.max + 1,
      xFirst |-> IF isMajor /\ options.showMajorLabels /\ RatPositive(x)
                    /\ ~ls.xFirst.def
                   THEN [def |-> TRUE, x |-> x]
                   ELSE ls.xFirst]

Tick ==
  /\ pc = "loop"
  /\ LoopContinues(step, max)
  /\ LET ls == LoopPass(LoopState)
     IN /\ dom' = ls.pool.dom
        /\ elems' = ls.pool.elems
        /\ frameChildren' = ls.pool.children
        /\ cycle' = ls.pool.cycle
        /\ xFirstMajorLabel' = ls.xFirst
        /\ max' = ls.max
        /\ step' = ls.step
  /\ UNCHANGED <<parentKind, host, range, options, frameExists, frameStyle,
                 container, props, width, height, conversion, pc, beforeChild,
                 raised, pre, last>>

\* after the loop: the major label on the left
LeftLabel ==
  /\ pc = "loop"
  /\ ~LoopContinues(step, max)
  /\ LET st == PlaceLeftLabel(PoolState, conversion, xFirstMajorLabel, options)
     IN /\ dom' = st.dom
        /\ elems' = st.elems
        /\ frameChildren' = st.children
        /\ cycle' = st.cycle
  /\ pc' = "cleanup"
  /\ UNCHANGED <<parentKind, host, range, options, frameExists, frameStyle,
                 container, props, width, height, conversion, step,
                 xFirstMajorLabel, max, beforeChild, raised, pre, last>>

\* the end of _repaintLabels
Cleanup ==
  /\ pc = "cleanup"
  /\ LET st == CleanupPool(PoolState)
     IN /\ dom' = st.dom
        /\ elems' = st.elems
        /\ frameChildren' = st.children
        /\ cycle' = st.cycle
  /\ pc' = "line"
  /\ UNCHANGED <<parentKind, host, range, options, frameExists, frameStyle,
                 container, props, width, height, conversion, step,
                 xFirstMajorLabel, max, beforeChild, raised, pre, last>>

\* a pass of the loop when its condition holds
WhilePass(ls) == IF LoopContinues(ls.step, ls.max) THEN LoopPass(ls) ELSE ls

RECURSIVE WhileLoop(_, _)
\* the loop, for at most n passes, as the first half of the passes followed
\* by the second half
WhileLoop(ls, n) ==
  IF n = 0 THEN ls
  ELSE IF n = 1 THEN WhilePass(ls)
  ELSE CHOOSE after \in {WhileLoop(half, n - (n \div 2)) :
                           half \in {WhileLoop(ls, n \div 2)}} : TRUE

\* _repaintLabels from the move to the redundant lists to the cleanup, in
\* one step
RepaintLabels ==
  /\ pc = "begin"
  /\ LET ls0 == [pool |-> [PoolState EXCEPT
                             !.dom = BeginCycleDom(dom),
                             !.cycle = [placed |-> ZeroCounts, created |-> ZeroCounts,
                                        destroyed |-> ZeroCounts, prev |-> cycle.placed]],
                 step |-> StepFirst(step),
                 max |-> 0,
                 xFirst |-> [def |-> FALSE, x |-> NoLeft]]
         ls == WhileLoop(ls0, MaxTicks + 1)
         st == CleanupPool(PlaceLeftLabel(ls.pool, conversion, ls.xFirst, options))
     IN /\ dom' = st.dom
        /\ elems' = st.elems
        /\ frameChildren' = st.children
        /\ cycle' = st.cycle
        /\ step' = ls.step
        /\ max' = ls.max
        /\ xFirstMajorLabel' = ls.xFirst
  /\ pc' = "line"
  /\ UNCHANGED <<parentKind, host, range, options, frameExists, frameStyle,
                 container, props, width, height, conversion, beforeChild,
                 raised, pre, last>>

\* what repaint leaves when it completes: the frame is online again
Completed(d, es, ch) ==
  /\ container' = Reattach(container, beforeChild)
  /\ pc' = "idle"
  /\ pre' = NoVisual
  /\ cycle' = [cycle EXCEPT !.created = ZeroCounts, !.destroyed = ZeroCounts,
                            !.prev = ZeroCounts]
  /\ last' = [valid |-> TRUE, range |-> range, width |-> width,
              parentHeight |-> host.height, options |-> options,
              lists |-> ActiveLists(d), elems |-> es,
              children |-> ch]

LineStyle(e, orientation, h) ==
  [e EXCEPT !.top = IF orientation = "top" THEN Px(h) ELSE NoPx,
            !.bottom = IF orientation = "top" THEN NoPx ELSE Px(h)]

\* a _repaintLine that left an existing line where it was among the
\* frame's children
RepaintLineShown_KeepPlace ==
  /\ pc = "line"
  /\ options.showMinorLabels \/ options.showMajorLabels
  /\ IF dom.line # NoElement
       THEN /\ frameChildren' = frameChildren
            /\ elems' = [elems EXCEPT ![dom.line] =
                           LineStyle(@, options.orientation, height)]
            /\ dom' = dom
       ELSE LET id == FreshId(elems, "grid horizontal major", 1)
            IN /\ frameChildren' = AppendChild(frameChildren, id, id)
               /\ elems' = (id :> LineStyle(NewElement("grid horizontal major", <<>>),
                                            options.orientation, height)) @@ elems
               /\ dom' = [dom EXCEPT !.line = id]
  /\ Completed(dom', elems', frameChildren')
  /\ UNCHANGED <<parentKind, host, range, options, frameExists, frameStyle,
                 props, width, height, conversion, step, xFirstMajorLabel, max,
                 beforeChild, raised>>

\* _repaintLine with a label kind shown: the line is created, or moved to
\* the end of the frame's children
RepaintLineShown ==
  /\ pc = "line"
  /\ options.showMinorLabels \/ options.showMajorLabels
  /\ IF dom.line # NoElement
       THEN /\ frameChildren' =
                 AppendChild(RemoveChildren(frameChildren, {dom.line}), dom.line, dom.line)
            /\ elems' = [elems EXCEPT ![dom.line] =
                           LineStyle(@, options.orientation, height)]
            /\ dom' = dom
       ELSE LET id == FreshId(elems, "grid horizontal major", 1)
            IN /\ frameChildren' = AppendChild(frameChildren, id, id)
               /\ elems' = (id :> LineStyle(NewElement("grid horizontal major", <<>>),
                                            options.orientation, height)) @@ elems
               /\ dom' = [dom EXCEPT !.line = id]
  /\ Completed(dom', elems', frameChildren')
  /\ UNCHANGED <<parentKind, host, range, options, frameExists, frameStyle,
                 props, width, height, conversion, step, xFirstMajorLabel, max,
                 beforeChild, raised>>

\* _repaintLine with no label kind shown and no line in the frame
RepaintLineAbsent ==
  /\ pc = "line"
  /\ ~(options.showMinorLabels \/ options.showMajorLabels)
  /\ ~(dom.line # NoElement /\ dom.line \in frameChildren.all)
  /\ Completed(dom, elems, frameChildren)
  /\ UNCHANGED <<parentKind, host, range, options, frameExists, frameStyle,
                 frameChildren, elems, dom, props, width, height, conversion,
                 step, xFirstMajorLabel, max, beforeChild, raised>>

\* _repaintLine with no label kind shown and the line in the frame:
\* frame.removeChild(line.line), which raises when its argument is no node
RepaintLineRemove ==
  /\ pc = "line"
  /\ ~(options.showMinorLabels \/ options.showMajorLabels)
  /\ dom.line # NoElement /\ dom.line \in frameChildren.all
  /\ LET child == LineOfLine(elems[dom.line])
     IN IF child = NoElement
          THEN /\ raised' = "TypeError"
               /\ pc' = "idle"
               /\ last' = NoLast
               /\ UNCHANGED <<container, frameChildren, elems, dom, pre, cycle>>
          ELSE /\ frameChildren' = RemoveChildren(frameChildren, {child})
               /\ elems' = [id \in (DOMAIN elems) \ {child} |-> elems[id]]
               /\ dom' = [dom EXCEPT !.line = NoElement]
               /\ Completed(dom', elems', frameChildren')
               /\ UNCHANGED raised
  /\ UNCHANGED <<parentKind, host, range, options, frameExists, frameStyle,
                 props, width, height, conversion, step, xFirstMajorLabel, max,
                 beforeChild>>

-----------------------------------------------------------------------------
(* The specifications *)

RepaintStep ==
  \/ RepaintStart
  \/ BeginCycle
  \/ Tick
  \/ LeftLabel
  \/ Cleanup
  \/ RepaintLineShown
  \/ RepaintLineAbsent

Next ==
  \/ \E arg \in RangeArgs : SetRange(arg)
  \/ \E o \in OptionValues : SetOptions(o)
  \/ \E h \in Hosts : HostResize(h)
  \/ RepaintNoParent
  \/ RepaintNoRange
  \/ RepaintLineRemove
  \/ RepaintStep

Spec == Init /\ [][Next]_vars

-----------------------------------------------------------------------------
(* The pool *)

\* the class of the elements of each kind
KindClass ==
  [majorLines |-> "grid vertical major", majorTexts |-> "text major",
   minorLines |-> "grid vertical minor", minorTexts |-> "text minor"]

\* the elements of a kind that are attached to the frame
LiveOfKind(k) == {id \in frameChildren.all : elems[id].className = KindClass[k]}

\* the elements of a kind that exist
ExistingOfKind(es, k) == {id \in DOMAIN es : es[id].className = KindClass[k]}

Max0(n) == IF n > 0 THEN n ELSE 0

\* the preceding call of repaint completed, and no repaint is under way
AfterRepaint == pc = "idle" /\ last.valid

\* C1: after a completed repaint, for each kind the elements attached to
\* the frame are as many as were placed in that repaint, which is the length
\* of the kind's active list, and the redundant lists are empty.
C1_PoolConservation ==
  AfterRepaint =>
    \A k \in Kinds :
      /\ Len(dom[k]) = cycle.placed[k]
      /\ Cardinality(LiveOfKind(k)) = cycle.placed[k]
      /\ Cardinality(ExistingOfKind(elems, k)) = cycle.placed[k]
      /\ LiveOfKind(k) = Ids(dom[k])
      /\ dom.redundant[k] = <<>>

\* a repaint has completed that placed elements of each kind
C1_Witness ==
  /\ AfterRepaint
  /\ \A k \in Kinds : cycle.placed[k] > 0
  /\ cycle.placed.minorTexts > cycle.placed.majorTexts

\* C2: an element of a kind is created only when the kind's redundant list
\* is empty, an element is destroyed only by the cleanup and only when it is
\* in a redundant list, and at the end of the pool cycle the elements created
\* are max(0, k_i - k_(i-1)) and the elements destroyed max(0, k_(i-1) - k_i).
C2_ReuseBeforeCreate ==
  /\ [](pc = "line" =>
          \A k \in Kinds :
            /\ cycle.created[k] = Max0(cycle.placed[k] - cycle.prev[k])
            /\ cycle.destroyed[k] = Max0(cycle.prev[k] - cycle.placed[k]))
  /\ [][(pc \in {"loop", "cleanup"} \/ DOMAIN elems' # DOMAIN elems) =>
           \A k \in Kinds :
             LET new == ExistingOfKind(elems', k) \ DOMAIN elems
                 gone == ExistingOfKind(elems, k) \ DOMAIN elems'
             IN /\ new # {} => dom.redundant[k] = <<>>
                /\ pc = "loop" => cycle'.created[k] = cycle.created[k] + Cardinality(new)
                /\ gone # {} => pc = "cleanup" /\ gone \subseteq Ids(dom.redundant[k])
                /\ pc = "cleanup" => cycle'.destroyed[k] = Cardinality(gone)
       ]_vars

\* a pool cycle ends that followed one with fewer minor labels and more
\* minor lines
C2_Witness ==
  /\ pc = "line"
  /\ cycle.prev.minorTexts > 0
  /\ cycle.created.minorTexts > 0
  /\ cycle.destroyed.minorLines > 0

\* all the lists of the pool, one after the other
AllLists ==
  dom.majorLines \o dom.majorTexts \o dom.minorLines \o dom.minorTexts
    \o dom.redundant.majorLines \o dom.redundant.majorTexts
    \o dom.redundant.minorLines \o dom.redundant.minorTexts

\* C3: in every state, no element is in two lists of the pool (two active
\* lists, or an active and a redundant list) or twice in one list.
C3_PoolDisjoint == Cardinality(Ids(AllLists)) = Len(AllLists)

\* in the loop, with elements reused and elements still to reuse
C3_Witness ==
  /\ pc = "loop"
  /\ Len(dom.minorLines) > 1
  /\ Len(dom.redundant.minorLines) > 1
  /\ dom.majorTexts # <<>>

\* the inputs of the repaint under way are those of the preceding repaint,
\* which completed
SameInputsAsLast ==
  /\ last.valid
  /\ last.range = range
  /\ last.width = width
  /\ last.parentHeight = host.height
  /\ last.options = options

\* C4: a repaint that completes after a completed repaint with the same
\* range, width, panel height and options creates and destroys no element
\* and leaves the active lists, and the position and text of every element,
\* as the first left them.
C4_Idempotent ==
  [][(pc = "line" /\ pc' = "idle" /\ raised' = "none" /\ SameInputsAsLast) =>
       /\ cycle.created = ZeroCounts
       /\ cycle.destroyed = ZeroCounts
       /\ ActiveLists(dom') = last.lists
       /\ elems' = last.elems
       /\ frameChildren' = last.children
    ]_vars

\* the second of two repaints with the same inputs is about to complete
C4_Witness ==
  /\ pc = "line"
  /\ SameInputsAsLast
  /\ Len(dom.minorTexts) > 2
  /\ Len(dom.majorTexts) > 1

-----------------------------------------------------------------------------
(* The failure of a repaint *)

\* C5: whenever a call of repaint has raised, the frame's place in its
\* parent, the active lists, every element's position and text, the children
\* of the frame and the axis line are as they were when the call began.
C5_NoPartialFailure ==
  (pc = "idle" /\ pre.valid) =>
    /\ container = pre.container
    /\ ActiveLists(dom) = pre.lists
    /\ elems = pre.elems
    /\ frameChildren = pre.children
    /\ dom.line = pre.line

-----------------------------------------------------------------------------
(* The ticks *)

\* a step of the tick loop
TickStep == pc = "loop" /\ max' = max + 1

\* the elements of a kind the step places
PlacedNow(k) == cycle'.placed[k] - cycle.placed[k]

\* the element the step has pushed last on a list
LastPlaced(k) == elems'[dom'[k][Len(dom'[k])]]

\* the position of the tick of the step
TickX == ToScreen(conversion, step.current)

\* C6 as stated: for every tick that is major a major gridline is placed at
\* the tick's position whatever showMajorLabels is, a minor gridline is placed
\* only for ticks that are not major, and a major label is placed when the
\* tick is major, showMajorLabels is set and the position is > 0.
C6_MajorLineRegardless ==
  [][TickStep =>
       /\ StepIsMajor(step) =>
            /\ PlacedNow("majorLines") = 1
            /\ LastPlaced("majorLines").left = RatMinusHalf(TickX, props.majorLineWidth)
       /\ PlacedNow("minorLines") > 0 => ~StepIsMajor(step)
       /\ PlacedNow("majorTexts") =
            IF StepIsMajor(step) /\ options.showMajorLabels /\ TickX.n > 0 THEN 1 ELSE 0
    ]_vars

\* C6 (amended): for every tick exactly one gridline is placed, at the
\* tick's position: a major gridline when the tick is major and
\* showMajorLabels is set, a minor gridline otherwise (so also for a major
\* tick when showMajorLabels is not set); a major label is placed when the
\* tick is major, showMajorLabels is set and the position is > 0.
C6_GridlineKind ==
  [][TickStep =>
       LET major == StepIsMajor(step) /\ options.showMajorLabels
       IN /\ PlacedNow("majorLines") = (IF major THEN 1 ELSE 0)
          /\ PlacedNow("minorLines") = (IF major THEN 0 ELSE 1)
          /\ major =>
               LastPlaced("majorLines").left = RatMinusHalf(TickX, props.majorLineWidth)
          /\ ~major =>
               LastPlaced("minorLines").left = RatMinusHalf(TickX, props.minorLineWidth)
          /\ PlacedNow("majorTexts") = (IF major /\ TickX.n > 0 THEN 1 ELSE 0)
    ]_vars

\* the loop has passed a major tick with showMajorLabels not set, and the
\* tick has got a minor gridline
C6_Witness ==
  /\ pc = "loop"
  /\ ~options.showMajorLabels
  /\ \E t \in {0, 4} :
       /\ step.start <= t /\ t < step.current
       /\ \E i \in 1..Len(dom.minorLines) :
            elems[dom.minorLines[i]].left
              = RatMinusHalf(ToScreen(conversion, t), props.minorLineWidth)

-----------------------------------------------------------------------------
(* The major label on the left *)

\* the major labels the loop has placed are at a position > 0, the label of
\* the left edge is at 0
LoopLabels == {i \in 1..Len(dom.majorTexts) : elems[dom.majorTexts[i]].left.n > 0}

EdgeLabelPlaced == \E i \in 1..Len(dom.majorTexts) : elems[dom.majorTexts[i]].left.n = 0

\* the position of the first major label of the loop
FirstLoopLabelX ==
  elems[dom.majorTexts[CHOOSE i \in LoopLabels : \A j \in LoopLabels : i <= j]].left

\* the text of the label of the left edge
EdgeText == StepLabelMajor(ToTime(conversion, 0))

\* C7 as stated: after the loop and the placing of the left label, a major
\* label is at pixel 0 exactly when showMajorLabels is set and either the
\* loop placed no major label or w < x, for x the position of the first
\* major label of the loop and w the length of the text times the major
\* glyph width, plus 10.
C7_EdgeLabelGlyphWidth ==
  pc = "cleanup" =>
    (EdgeLabelPlaced <=>
       /\ options.showMajorLabels
       /\ \/ LoopLabels = {}
          \/ LessThanRat(Len(EdgeText) * props.majorCharWidth + 10, FirstLoopLabelX))

\* C7 (amended): the same, with w the length of the text times the major
\* glyph width, or times 10 when the glyph width measured is 0, plus 10.
C7_EdgeLabel ==
  pc = "cleanup" =>
    (EdgeLabelPlaced <=>
       /\ options.showMajorLabels
       /\ \/ LoopLabels = {}
          \/ LessThanRat(
               Len(EdgeText)
                 * (IF props.majorCharWidth = 0 THEN 10 ELSE props.majorCharWidth) + 10,
               FirstLoopLabelX))

\* the first major label of the loop is at x > 0, w < x and the label of the
\* left edge is placed
C7_Witness ==
  /\ pc = "cleanup"
  /\ options.showMajorLabels
  /\ LoopLabels # {}
  /\ EdgeLabelPlaced

-----------------------------------------------------------------------------
(* The axis line *)

\* C9: a call of repaint that has come to _repaintLine completes, and when
\* it has, the axis line is in the frame only if showMinorLabels or
\* showMajorLabels is set.
C9_AxisLinePresence ==
  [][(pc = "line" /\ pc' = "idle") =>
       /\ raised' = "none"
       /\ (dom'.line # NoElement /\ dom'.line \in frameChildren'.all) =>
            (options.showMinorLabels \/ options.showMajorLabels)
    ]_vars

-----------------------------------------------------------------------------
(* setRange *)

-----------------------------------------------------------------------------
(* The cap on the ticks: repaints of a range of more than MaxTicks ticks *)

\* a range and a width for which the generator steps by 1 over 1201 instants
CapRange == RangeValue("Object", TRUE, 1, TRUE, 1201)

CapHost == [width |-> 60000, height |-> 50]

InitCap ==
  /\ parentKind = "ok"
  /\ host = CapHost
  /\ range = CapRange
  /\ options \in {o \in OptionValues : o.orientation = "bottom"}
  /\ frameExists = FALSE
  /\ frameStyle = [top |-> NoPx, bottom |-> NoPx, left |-> NoPx, height |-> NoPx]
  /\ container = <<>>
  /\ frameChildren = NoChildren
  /\ elems = <<>>
  /\ dom = [majorLines |-> <<>>, majorTexts |-> <<>>, minorLines |-> <<>>,
            minorTexts |-> <<>>, redundant |-> EmptyLists, line |-> NoElement]
  /\ props = [measured |-> FALSE,
              minorCharHeight |-> 0, minorCharWidth |-> 0,
              majorCharHeight |-> 0, majorCharWidth |-> 0,
              minorLabelHeight |-> 0, majorLabelHeight |-> 0,
              minorLineHeight |-> 0, minorLineWidth |-> 0,
              majorLineHeight |-> 0, majorLineWidth |-> 0]
  /\ width = 0
  /\ height = 0
  /\ conversion = NoConversion
  /\ step = NoStep
  /\ pc = "idle"
  /\ xFirstMajorLabel = [def |-> FALSE, x |-> NoLeft]
  /\ max = 0
  /\ beforeChild = "none"
  /\ raised = "none"
  /\ cycle = [placed |-> ZeroCounts, created |-> ZeroCounts,
              destroyed |-> ZeroCounts, prev |-> ZeroCounts]
  /\ pre = NoVisual
  /\ last = NoLast

\* the options set between the repaints: every label shown, or none
CapOptions ==
  {DefaultOptions,
   [DefaultOptions EXCEPT !.showMinorLabels = FALSE, !.showMajorLabels = FALSE]}

NextCap ==
  \/ \E o \in CapOptions : SetOptions(o)
  \/ RepaintStart
  \/ RepaintLabels
  \/ RepaintLineShown
  \/ RepaintLineAbsent
  \/ RepaintLineRemove

SpecCap == InitCap /\ [][NextCap]_vars

\* the ticks the generator has for the range of the repaint under way
TicksOfGenerator == (step.end - StepFirst(step).current) \div step.step + 1

\* C8 as stated: when the generator has more than 1000 ticks for a repaint,
\* the pool cycle ends with exactly 1000 elements of each kind that is
\* enabled: minor labels with showMinorLabels, major labels with
\* showMajorLabels, minor lines and major lines.
C8_ThousandOfEachKind ==
  (pc = "line" /\ TicksOfGenerator > 1000) =>
    /\ options.showMinorLabels => Len(dom.minorTexts) = 1000
    /\ options.showMajorLabels => Len(dom.majorTexts) = 1000
    /\ Len(dom.minorLines) = 1000
    /\ options.showMajorLabels => Len(dom.majorLines) = 1000

\* C8 (amended): when the generator has more than 1000 ticks for a repaint,
\* the loop processes exactly 1000 of them and the pool cycle ends with
\* exactly 1000 minor labels if showMinorLabels is set, exactly 1000
\* gridlines, major and minor together, and at most 1000 elements of every
\* kind.
C8_CapEnforced ==
  (pc = "line" /\ TicksOfGenerator > 1000) =>
    /\ max = 1000
    /\ options.showMinorLabels => Len(dom.minorTexts) = 1000
    /\ Len(dom.minorLines) + Len(dom.majorLines) = 1000
    /\ \A k \in Kinds : Len(dom[k]) <= 1000

\* a pool cycle has ended for a range of more than 1000 ticks, with both
\* kinds of label shown
C8_Witness ==
  /\ pc = "line"
  /\ TicksOfGenerator > 1000
  /\ options.showMinorLabels /\ options.showMajorLabels
  /\ step.current <= step.end
  /\ Len(dom.majorTexts) > 1

-----------------------------------------------------------------------------
(* Repaint without a range *)

\* a call of repaint, up to where it raises or reaches _repaintLabels' loop
RepaintCall == RepaintNoParent \/ RepaintNoRange \/ RepaintStart

\* C11: a repaint called while no range has been set raises, and raises
\* before the pool cycle begins: the call ends at once, no element is
\* created, retired or destroyed (none exists before or after, the lists and
\* the frame's children are as they were) and the conversion stays unset
C11_RepaintWithoutRange ==
  [][(range.kind = "null" /\ RepaintCall)
       => /\ raised' = "Error"
          /\ pc' = "idle"
          /\ DOMAIN elems' = {} /\ elems' = elems
          /\ dom' = dom
          /\ frameChildren' = frameChildren
          /\ cycle' = cycle
          /\ conversion = NoConversion /\ conversion' = NoConversion]_vars

\* a repaint with a parent and no range has raised: the frame was created
\* and taken offline, nothing else exists
C11_Witness ==
  /\ pc = "idle"
  /\ range.kind = "null"
  /\ parentKind = "ok"
  /\ frameExists
  /\ raised = "Error"
  /\ pre.valid
  /\ conversion = NoConversion

-----------------------------------------------------------------------------
(* The conversion as the callers see it *)

\* the pixels and the instants that callers pass
PixelArgs == {-1, 0, 1, 2, 7, 29, 30, 99}
InstantArgs == 0..7

\* a call that returns a value, and one that raises
Returned(v) == [raised |-> "none", value |-> v]
Thrown(e) == [raised |-> e, value |-> 0]

\* a toTime that took a conversion that is null for one of scale 1, offset 0
ToTimeCall_NullAsIdentity(conv, x) ==
  IF conv.set THEN Returned(ToTime(conv, x)) ELSE Returned(x)

\* toTime(x): conversion.scale of a null conversion raises a TypeError
ToTimeCall(conv, x) ==
  IF conv.set THEN Returned(ToTime(conv, x)) ELSE Thrown("TypeError")

\* toScreen(time): conversion.offset of a null conversion raises a TypeError
ToScreenCall(conv, time) ==
  IF conv.set THEN Returned(ToScreen(conv, time)) ELSE Thrown("TypeError")

\* t is the Date built from the number v / d (d > 0): the whole number
\* between 0 and v / d that is less than 1 away from it
IsDateOf(t, v, d) ==
  IF v >= 0 THEN t >= 0 /\ t * d <= v /\ v < (t + 1) * d
            ELSE t <= 0 /\ t * d >= v /\ v > (t - 1) * d

\* C12: while no repaint has computed a conversion (it is still null and no
\* step configuration exists) toTime and toScreen raise for every argument;
\* once a repaint has computed one they return, for every argument,
\* pixel = (time - offset) * scale and the Date of pixel / scale + offset,
\* where scale = width / (end - start) and offset = start of the repaint
\* that computed it
C12_ConversionAvailability ==
  /\ ~conversion.set =>
       /\ step = NoStep /\ ~last.valid
       /\ \A x \in PixelArgs : ToTimeCall(conversion, x).raised # "none"
       /\ \A t \in InstantArgs : ToScreenCall(conversion, t).raised # "none"
  /\ conversion.set =>
       /\ step # NoStep
       /\ conversion.num = width /\ conversion.den > 0
       /\ AfterRepaint =>
            /\ conversion.offset = last.range.start
            /\ conversion.num = last.width
            /\ conversion.den = last.range.end - last.range.start
       /\ \A x \in PixelArgs :
            LET r == ToTimeCall(conversion, x)
            IN /\ r.raised = "none"
               /\ IsDateOf(r.value,
                           x * conversion.den + conversion.offset * conversion.num,
                           conversion.num)
       /\ \A t \in InstantArgs :
            LET r == ToScreenCall(conversion, t)
            IN /\ r.raised = "none"
               /\ r.value.d # 0
               /\ r.value.n * conversion.den
                    = (t - conversion.offset) * conversion.num * r.value.d

\* the conversion of a completed repaint at a width at which a pixel is less
\* than one instant
C12_Witness ==
  /\ AfterRepaint
  /\ conversion.set
  /\ conversion.num = 100 /\ conversion.den = 2 /\ conversion.offset = 1
  /\ ToTimeCall(conversion, 99).value = 2
  /\ ToScreenCall(conversion, 3).value = Rat(200, 2)

-----------------------------------------------------------------------------
(* The round trips of the conversion *)

\* TimeAxis.prototype.toTime, for a pixel position x = n/d
ToTimeRat(conv, x) ==
  TruncDiv(x.n * conv.den + conv.offset * conv.num * x.d, conv.num * x.d)

\* the whole pixels of the axis that callers pass
PixelsOfAxis(conv) == {p \in PixelArgs : 0 <= p /\ p < conv.num}

\* the whole instants of the range of the conversion
InstantsOfRange(conv) == conv.offset .. (conv.offset + conv.den)

\* the position x = n/d is the whole pixel p
RatIs(x, p) == x.d # 0 /\ x.n = p * x.d

-----------------------------------------------------------------------------
(* The glyph measurement *)

\* the four cached glyph sizes
CharSizes(p) ==
  <<p.minorCharHeight, p.minorCharWidth, p.majorCharHeight, p.majorCharWidth>>

\* C14: the glyph sizes are measured at most once: they are set only by a
\* call of repaint of a component that has not measured them, and once they
\* are measured no step changes them, whatever the options, the range and
\* the width of the later repaints
C14_MeasureOnce ==
  [][(props' # props) =>
       /\ props.measured => (props'.measured /\ CharSizes(props') = CharSizes(props))
       /\ ~props.measured =>
            \/ ~props'.measured /\ CharSizes(props') = CharSizes(props)
            \/ props'.measured /\ pc = "idle" /\ RepaintCall]_vars

\* a later repaint, of another range at another width, is under way and the
\* sizes are those measured before the repaint that completed
C14_Witness ==
  /\ pc = "begin"
  /\ last.valid
  /\ props.measured
  /\ CharSizes(props) = <<12, 4, 16, 4>>
  /\ width # last.width
  /\ range # last.range
  /\ options # last.options

-----------------------------------------------------------------------------
(* The draw order *)

\* the elements of the active lists
ActiveElements == UNION {Ids(dom[k]) : k \in Kinds}

\* C15: after every completed repaint in which a label kind is shown, the
\* axis line is a child of the frame and no child follows it: every label
\* and gridline of the active lists, created in this repaint or reused, is a
\* child of the frame that comes before the line
C15_LineLast ==
  (AfterRepaint /\ (last.options.showMinorLabels \/ last.options.showMajorLabels)) =>
    /\ dom.line # NoElement
    /\ dom.line \in frameChildren.all
    /\ frameChildren.afterLine = {}
    /\ ActiveElements \subseteq frameChildren.all \ {dom.line}
    /\ last.children = frameChildren

\* a completed repaint with labels and gridlines before the line
C15_Witness ==
  /\ AfterRepaint
  /\ last.options.showMinorLabels /\ last.options.showMajorLabels
  /\ dom.line \in frameChildren.all
  /\ frameChildren.afterLine = {}
  /\ dom.minorTexts # <<>> /\ dom.majorTexts # <<>>
  /\ dom.minorLines # <<>> /\ dom.majorLines # <<>>

-----------------------------------------------------------------------------
(* The order of reuse *)

\* a step of the loop takes an element of the kind from a redundant list
\* that holds several
ReusesOneOfSeveral(k) ==
  /\ pc = "loop"
  /\ Len(dom.redundant[k]) >= 2
  /\ Len(dom'.redundant[k]) = Len(dom.redundant[k]) - 1

\* C16 as stated: when several retired elements of a kind are available, the
\* one reused is the most recently retired, the one placed last in the
\* previous repaint (the pool is a stack).
C16_ReuseMostRecentFirst ==
  [][\A k \in Kinds :
       ReusesOneOfSeveral(k) =>
         LET red == dom.redundant[k]
         IN /\ dom'[k] = Append(dom[k], red[Len(red)])
            /\ dom'.redundant[k] = SubSeq(red, 1, Len(red) - 1)
    ]_vars

\* C16 (amended): when several retired elements of a kind are available, the
\* one reused is the one retired first, the one placed first in the previous
\* repaint among those not yet reused (the pool is a queue), so the elements
\* are reused in the order in which the previous repaint placed them.
C16_ReuseOldestFirst ==
  [][\A k \in Kinds :
       ReusesOneOfSeveral(k) =>
         LET red == dom.redundant[k]
         IN /\ dom'[k] = Append(dom[k], Head(red))
            /\ dom'.redundant[k] = Tail(red)
            /\ (last.valid /\ Len(dom[k]) < Len(last.lists[k])) =>
                 Head(red) = last.lists[k][Len(dom[k]) + 1]
    ]_vars

\* in the loop after a completed repaint: the first minor label placed is
\* the first of the previous repaint, and several are still to reuse
C16_Witness ==
  /\ pc = "loop"
  /\ last.valid
  /\ Len(last.lists.minorTexts) >= 3
  /\ Len(dom.redundant.minorTexts) >= 2
  /\ dom.minorTexts = <<last.lists.minorTexts[1]>>

-----------------------------------------------------------------------------
(* The termination of a repaint *)

\* C17: the loop of a repaint ends after at most 1000 passes, also when the
\* generator still has ticks: when _repaintLabels has returned the condition
\* of the loop is false, at most 1000 ticks were processed, exactly 1000 when
\* the generator has more, no error is raised and the cleanup has run (the
\* redundant lists are empty)
C17_BoundedRepaint ==
  pc = "line" =>
    /\ max <= MaxTicks
    /\ ~LoopContinues(step, max)
    /\ StepHasNext(step) => max = MaxTicks
    /\ TicksOfGenerator > MaxTicks => StepHasNext(step)
    /\ raised = "none"
    /\ dom.redundant = EmptyLists

\* a repaint has completed whose loop stopped at the cap with ticks left
C17_Witness ==
  /\ AfterRepaint
  /\ raised = "none"
  /\ max = MaxTicks
  /\ StepHasNext(step)
  /\ TicksOfGenerator > MaxTicks
  /\ dom.redundant = EmptyLists
  /\ Len(dom.minorTexts) = MaxTicks

-----------------------------------------------------------------------------
(* The elements of a completed repaint *)

\* C18: after every completed repaint, which processed max ticks (at most
\* 1000), the active major lines and minor lines are max together, the
\* active minor labels are max with showMinorLabels and none without, and
\* the active major labels are at most one more than the major lines
C18_OneGridlinePerTick ==
  AfterRepaint =>
    /\ max <= MaxTicks
    /\ Len(dom.majorLines) + Len(dom.minorLines) = max
    /\ Len(dom.minorTexts) = IF last.options.showMinorLabels THEN max ELSE 0
    /\ Len(dom.majorTexts) <= Len(dom.majorLines) + 1
    /\ ActiveLists(dom) = last.lists

\* a completed repaint with major and minor ticks and with the label of the
\* left edge: as many major labels as major lines and one more
C18_Witness ==
  /\ AfterRepaint
  /\ max >= 4
  /\ Len(dom.majorLines) >= 1
  /\ Len(dom.minorLines) >= 2
  /\ Len(dom.majorTexts) = Len(dom.majorLines) + 1
  /\ Len(dom.minorTexts) = max

-----------------------------------------------------------------------------
(* The frame in its parent, over a repaint *)

\* C19: every repaint that took the frame offline puts it back: when the
\* call ends the frame is a child of the container again, before the sibling
\* it was before (or last, if it had none), and the other children are as
\* they were; no repaint leaves the frame detached.
C19_FrameReattached ==
  [][(pc # "idle" /\ pc' = "idle") =>
       /\ FrameAttached'
       /\ NextSibling(container', "frame") = beforeChild
       /\ Without(container', {"frame"}) = container
    ]_vars

-----------------------------------------------------------------------------
(* setRange and the results of the last repaint *)

\* step.snap(date): the multiple of the step nearest to the date
StepSnap(s, date) == ((2 * date + s.step) \div (2 * s.step)) * s.step

\* snap(date): this.step is undefined until a repaint has made a TimeStep
SnapCall(s, date) ==
  IF s.set THEN Returned(StepSnap(s, date)) ELSE Thrown("TypeError")

\* C20: a step that stores another range (a successful setRange) leaves the
\* conversion, the step configuration, the active and the redundant lists,
\* the axis line, every element and the frame's children as they were, so
\* toTime, toScreen and snap answer as before it: after a completed repaint,
\* for the range and the width of that repaint
C20_SetRangeOnlyRange ==
  [][(range' # range) =>
       /\ pc = "idle" /\ pc' = "idle"
       /\ raised' = "none"
       /\ conversion' = conversion
       /\ step' = step
       /\ dom' = dom
       /\ elems' = elems
       /\ frameChildren' = frameChildren
       /\ width' = width
       /\ \A x \in PixelArgs : ToTimeCall(conversion', x) = ToTimeCall(conversion, x)
       /\ \A t \in InstantArgs :
            /\ ToScreenCall(conversion', t) = ToScreenCall(conversion, t)
            /\ SnapCall(step', t) = SnapCall(step, t)
       /\ AfterRepaint =>
            /\ last' = last
            /\ conversion' = UpdateConversion(last.range, last.width)
            /\ step'.start = last.range.start /\ step'.end = last.range.end
    ]_vars

\* after a completed repaint another range has been stored: the conversion
\* and the step are those of the repaint
C20_Witness ==
  /\ AfterRepaint
  /\ raised = "none"
  /\ range # last.range
  /\ range.hasStart /\ range.start # last.range.start
  /\ conversion.offset = last.range.start
  /\ step.start = last.range.start
  /\ dom.minorTexts # <<>>
  /\ ToScreenCall(conversion, last.range.start).value = Rat(0, conversion.den)

====
